---------------------------- MODULE Spec2Model ----------------------------
(***************************************************************************)
(* A model of src/app.py: a Flask process that loads a fitted              *)
(* preprocessor and a regression model once at import time and then serves *)
(* GET /, POST /predict, POST /batch_predict and GET /health.              *)
(*                                                                         *)
(* Numbers are integers in thousandths (12.0 is 12000, 7.5 is 7500).       *)
(* A Python value that may be None is a record with a `none` flag, so that *)
(* every variable keeps one shape.                                         *)
(***************************************************************************)
EXTENDS Integers, Sequences, FiniteSets, TLC

VARIABLES
    fs,                \* the files under PROJECT_ROOT (never written by the program)
    pc,                \* "startup": module body not yet run; "serving": app.run
    preprocessor,      \* global, line 19
    model,             \* global, line 20
    features,          \* global, line 21
    num_cols,          \* global, line 22
    cat_cols,          \* global, line 23
    training_uniques,  \* global, line 24
    log,               \* what the startup block printed (lines 118, 120)
    request,           \* the request last handled
    response,          \* the response to it
    trace              \* what the handler did on the way: files read, pipeline calls

vars == <<fs, pc, preprocessor, model, features, num_cols, cat_cols,
          training_uniques, log, request, response, trace>>

artifacts == <<preprocessor, model, features, num_cols, cat_cols, training_uniques>>

----------------------------------------------------------------------------
(* Bounds of the model *)

\* longest num_cols + cat_cols the feature_list.json of an initial state holds
MaxCols == 2

\* most data rows of an uploaded CSV
MaxRows == 2

----------------------------------------------------------------------------
(* Python values *)

TARGET == "Price_INR"

PREDICTED == "Predicted_Price_INR"

\* request.form.get(name) of a field the form does not hold
NoneValue == "<None>"

NoneList == [none |-> TRUE, items |-> <<>>]

ListOf(s) == [none |-> FALSE, items |-> s]

\* a cell of a DataFrame or a value of input_data
IntCell(n) == [kind |-> "int", num |-> n, str |-> ""]

FloatCell(n) == [kind |-> "float", num |-> n, str |-> ""]

NaNCell == [kind |-> "nan", num |-> 0, str |-> ""]

StrCell(s) == [kind |-> "str", num |-> 0, str |-> s]

Range(s) == {s[i] : i \in DOMAIN s}

SeqsUpTo(S, n) == UNION {[1..k -> S] : k \in 0..n}

NoDuplicates(s) == \A i, j \in DOMAIN s : s[i] = s[j] => i = j

\* [x for x in s if Keep(x)]
RECURSIVE Filter(_, _)
Filter(s, keep) ==
    IF s = <<>> THEN <<>>
    ELSE (IF Head(s) \in keep THEN <<Head(s)>> ELSE <<>>) \o Filter(Tail(s), keep)

\* the texts the model's forms, uploads and training sample are written in, with
\* what Python's float() makes of each: a number, nan, or ValueError
NumericLiteral ==
    [t \in {"12", "7.5", "2015", "2018"} |->
        CASE t = "12" -> 12000
          [] t = "7.5" -> 7500
          [] t = "2015" -> 2015000
          [] t = "2018" -> 2018000]

IsIntLiteral(t) == t \in {"12", "2015", "2018"}

\* float() that reads a text it cannot parse as NaN instead of raising
PyFloat_lenient(value) ==
    IF value = NoneValue
    THEN [raised |-> "float() argument must be a string or a real number, not 'NoneType'",
          cell |-> NaNCell]
    ELSE IF value \in DOMAIN NumericLiteral
         THEN [raised |-> "", cell |-> FloatCell(NumericLiteral[value])]
    ELSE [raised |-> "", cell |-> NaNCell]

\* float(value), lines 148, 150, 152
PyFloat(value) ==
    IF value = NoneValue
    THEN [raised |-> "float() argument must be a string or a real number, not 'NoneType'",
          cell |-> NaNCell]
    ELSE IF value \in DOMAIN NumericLiteral
         THEN [raised |-> "", cell |-> FloatCell(NumericLiteral[value])]
    ELSE IF value = "nan" THEN [raised |-> "", cell |-> NaNCell]
    ELSE [raised |-> "could not convert string to float", cell |-> NaNCell]

\* int(x) of a float x, line 148: truncation; nan has no integer
PyInt(f) ==
    IF f.raised # "" THEN f
    ELSE IF f.cell.kind = "nan"
         THEN [raised |-> "cannot convert float NaN to integer", cell |-> NaNCell]
    ELSE [raised |-> "", cell |-> IntCell((f.cell.num \div 1000) * 1000)]

\* str(value), line 155: str(None) is the text "None"
PyStr(value) == IF value = NoneValue THEN "None" ELSE value


----------------------------------------------------------------------------
(* Tables: a CSV file as text, a DataFrame as typed cells *)

\* the feature names the model's files, forms and uploads are written over
Names == {"Year", "Brand"}

\* pd.read_csv of a well-formed file, lines 48, 65, 87, 146, 184: one dtype per
\* column. All integer texts make an int64 column; numbers and empty cells a
\* float64 column; anything else an object column whose empty cells are NaN.
ColumnTexts(csv, c) == {csv.rows[i][c] : i \in DOMAIN csv.rows}

ParsedDtype(csv, c) ==
    IF csv.rows = <<>> THEN "object"
    ELSE IF \A t \in ColumnTexts(csv, c) : IsIntLiteral(t) THEN "int64"
    ELSE IF \A t \in ColumnTexts(csv, c) : t \in DOMAIN NumericLiteral \/ t = ""
         THEN "float64"
    ELSE "object"

ParsedCell(dtype, t) ==
    IF t = "" THEN NaNCell
    ELSE IF dtype = "int64" THEN IntCell(NumericLiteral[t])
    ELSE IF dtype = "float64" THEN FloatCell(NumericLiteral[t])
    ELSE StrCell(t)

read_csv(csv) ==
    LET dtype == [c \in Range(csv.columns) |-> ParsedDtype(csv, c)]
    IN  [columns |-> csv.columns,
         rows |-> [i \in DOMAIN csv.rows |->
                     [c \in Range(csv.columns) |-> ParsedCell(dtype[c], csv.rows[i][c])]]]

ColumnCells(df, c) == {df.rows[i][c] : i \in DOMAIN df.rows}

\* df[c].dtype
Dtype(df, c) ==
    IF df.rows = <<>> THEN "object"
    ELSE IF \A x \in ColumnCells(df, c) : x.kind = "int" THEN "int64"
    ELSE IF \A x \in ColumnCells(df, c) : x.kind \in {"float", "nan"} THEN "float64"
    ELSE "object"

\* pd.api.types.is_integer_dtype, lines 92, 147
is_integer_dtype(dtype) == dtype = "int64"

\* pd.api.types.is_numeric_dtype, line 69
is_numeric_dtype(dtype) == dtype \in {"int64", "float64"}

\* df.drop(columns=[c]), line 107: a new frame
DropColumn(df, c) ==
    [columns |-> Filter(df.columns, Range(df.columns) \ {c}),
     rows |-> [i \in DOMAIN df.rows |->
                 [k \in Range(df.columns) \ {c} |-> df.rows[i][k]]]]

\* df[c] = values, line 111: the column is appended, or overwritten if present
SetColumn(df, c, values) ==
    [columns |-> IF c \in Range(df.columns) THEN df.columns
                 ELSE Append(df.columns, c),
     rows |-> [i \in DOMAIN df.rows |->
                 [k \in Range(df.columns) \cup {c} |->
                    IF k = c THEN values[i] ELSE df.rows[i][k]]]]

----------------------------------------------------------------------------
(* The files under PROJECT_ROOT, lines 12-16 *)

\* artifacts/transformed/train.csv when it exists: the sample the artifacts were
\* fit on
TrainCsv ==
    [columns |-> <<"Year", "Brand", TARGET>>,
     rows |-> << [c \in {"Year", "Brand", TARGET} |->
                    CASE c = "Year" -> "2015" [] c = "Brand" -> "Maruti"
                      [] OTHER -> "12"],
                 [c \in {"Year", "Brand", TARGET} |->
                    CASE c = "Year" -> "2018" [] c = "Brand" -> "Tata"
                      [] OTHER -> "7.5"],
                 [c \in {"Year", "Brand", TARGET} |->
                    CASE c = "Year" -> "2018" [] c = "Brand" -> "Tata"
                      [] OTHER -> "12"] >>]

\* pd.read_csv(TRAIN_CSV_PATH), lines 48, 65, 87, 146
TrainDf == read_csv(TrainCsv)

NoFile == [exists |-> FALSE, num_cols |-> <<>>, cat_cols |-> <<>>]

\* every feature_list.json: two lists of names, of any content, MaxCols names in all
FeatureLists ==
    {[exists |-> TRUE, num_cols |-> n, cat_cols |-> c] :
        <<n, c>> \in {p \in SeqsUpTo(Names, MaxCols) \X SeqsUpTo(Names, MaxCols) :
                        Len(p[1]) + Len(p[2]) <= MaxCols}}

TrainedFeatureList == [exists |-> TRUE, num_cols |-> <<"Year">>, cat_cols |-> <<"Brand">>]

\* preprocessor_file is "absent", or names how the fitted pipeline treats a
\* value it was not fit on (an unseen category, a missing number): "error"
\* raises, "ignore" encodes or imputes it. Every descriptor is tried with both
\* artifacts present; a missing artifact and the raising preprocessor are tried
\* with the descriptor of the training run and with none.
FileSystems ==
    { [preprocessor_file |-> p, model_file |-> m, feature_list |-> f, train_csv |-> t] :
        p \in {"ignore"}, m \in {TRUE},
        f \in FeatureLists \cup {NoFile}, t \in BOOLEAN }
    \cup
    { [preprocessor_file |-> p, model_file |-> m, feature_list |-> f, train_csv |-> t] :
        p \in {"absent", "error"}, m \in BOOLEAN,
        f \in {TrainedFeatureList, NoFile}, t \in BOOLEAN }

----------------------------------------------------------------------------
(* Startup, lines 26-81 and 114-120 *)

NoneObject == [none |-> TRUE, handle_unknown |-> ""]

\* joblib.load of a file that exists, lines 35-36
joblib_load(content) == [none |-> FALSE, handle_unknown |-> content]

Unset ==
    [raised |-> "FileNotFoundError", preprocessor |-> NoneObject, model |-> NoneObject,
     features |-> NoneList, num_cols |-> <<>>, cat_cols |-> <<>>]

\* the inference of lines 48-52 with every feature taken as categorical (line 52
\* without its filter)
infer_schema_unfiltered(g) ==
    LET feats == Filter(TrainDf.columns, Range(TrainDf.columns) \ {TARGET})
        numeric == Filter(TrainDf.columns,
                      {c \in Range(TrainDf.columns) :
                          Dtype(TrainDf, c) \in {"int64", "float64"}})
    IN  [g EXCEPT !.features = ListOf(feats),
                  !.num_cols = Filter(numeric, Range(feats)),
                  !.cat_cols = feats]

\* lines 48-52: the schema inferred from the training sample
infer_schema(g) ==
    LET feats == Filter(TrainDf.columns, Range(TrainDf.columns) \ {TARGET})
        numeric == Filter(TrainDf.columns,
                      {c \in Range(TrainDf.columns) :
                          Dtype(TrainDf, c) \in {"int64", "float64"}})
        nums == Filter(numeric, Range(feats))
    IN  [g EXCEPT !.features = ListOf(feats),
                  !.num_cols = nums,
                  !.cat_cols = Filter(feats, Range(feats) \ Range(nums))]

\* lines 38-56: the feature lists, from the descriptor, else from the training
\* sample, else empty
load_schema(files, g) ==
    IF files.feature_list.exists
    THEN [g EXCEPT !.num_cols = files.feature_list.num_cols,
                   !.cat_cols = files.feature_list.cat_cols,
                   !.features = ListOf(files.feature_list.num_cols
                                       \o files.feature_list.cat_cols)]
    ELSE IF files.train_csv THEN infer_schema(g)
    ELSE [g EXCEPT !.features = ListOf(<<>>), !.num_cols = <<>>, !.cat_cols = <<>>]

\* load_artifacts that loads the preprocessor before it looks for the model file
load_artifacts_eager(files) ==
    IF files.preprocessor_file = "absent" THEN Unset
    ELSE IF ~files.model_file
         THEN [Unset EXCEPT !.preprocessor = joblib_load(files.preprocessor_file)]
    ELSE load_schema(files, [Unset EXCEPT !.raised = "",
                               !.preprocessor = joblib_load(files.preprocessor_file),
                               !.model = joblib_load("")])

\* lines 26-58: what load_artifacts leaves in the globals, or the exception
load_artifacts(files) ==
    IF files.preprocessor_file = "absent" THEN Unset
    ELSE IF ~files.model_file THEN Unset
    ELSE load_schema(files, [Unset EXCEPT !.raised = "",
                               !.preprocessor = joblib_load(files.preprocessor_file),
                               !.model = joblib_load("")])

\* str order of the texts a training column holds, line 75
LexOrder == <<"Maruti", "Tata", "abc">>

LexRank(s) == CHOOSE i \in DOMAIN LexOrder : LexOrder[i] = s

\* df[col].value_counts(), line 74
Frequency(df, col, x) == Cardinality({i \in DOMAIN df.rows : df.rows[i][col] = x})

\* sorted(uniques, key=lambda x: (-freq.get(x, 0), str(x))), line 75
SortedUniques(df, col) ==
    LET uniques == {x \in ColumnCells(df, col) : x.kind # "nan"}
        Before(x, y) ==
            \/ Frequency(df, col, x) > Frequency(df, col, y)
            \/ /\ Frequency(df, col, x) = Frequency(df, col, y)
               /\ LexRank(x.str) < LexRank(y.str)
    IN  CHOOSE s \in [1..Cardinality(uniques) -> uniques] :
            /\ Range(s) = uniques
            /\ \A i, j \in DOMAIN s : i < j => Before(s[i], s[j])

\* lines 60-81: the dictionary training_uniques after the call
load_training_unique_values(files, before) ==
    IF files.train_csv
    THEN LET df == TrainDf
             cols == {c \in Range(df.columns) :
                        c # TARGET /\ ~is_numeric_dtype(Dtype(df, c))}
         IN  [c \in (DOMAIN before) \cup cols |->
                IF c \in cols
                THEN [i \in DOMAIN SortedUniques(df, c) |-> SortedUniques(df, c)[i].str]
                ELSE before[c]]
    ELSE before

----------------------------------------------------------------------------
(* The fitted pipeline: preprocessor.transform and model.predict *)

\* The artifacts are fitted objects of a library, opaque to app.py. The model
\* keeps what the handlers can observe of them: the columns the preprocessor
\* was fit on (those of the training sample), that it selects them by name, and
\* whether it raises on a value it was not fit on.
FIT_NUMERIC == {"Year"}

FIT_CATEGORICAL == {"Brand"}

KNOWN_CATEGORIES == <<"Maruti", "Tata">>

Occurrences(s, x) == Cardinality({i \in DOMAIN s : s[i] = x})

\* one numeric cell, scaled: a number, or a text float() reads, passes
NumericValue(x) ==
    IF x.kind \in {"int", "float"} THEN [ok |-> TRUE, nan |-> FALSE, num |-> x.num]
    ELSE IF x.kind = "nan" THEN [ok |-> TRUE, nan |-> TRUE, num |-> 0]
    ELSE IF x.str \in DOMAIN NumericLiteral
         THEN [ok |-> TRUE, nan |-> FALSE, num |-> NumericLiteral[x.str]]
    ELSE [ok |-> FALSE, nan |-> FALSE, num |-> 0]

\* one categorical cell, encoded: 0 is the encoding of an unseen category
CategoryCode(x) ==
    IF x.kind = "str" /\ x.str \in Range(KNOWN_CATEGORIES)
    THEN CHOOSE i \in DOMAIN KNOWN_CATEGORIES : KNOWN_CATEGORIES[i] = x.str
    ELSE 0

\* preprocessor.transform(df), lines 99 and 109
transform(pre, df) ==
    LET fit == FIT_NUMERIC \cup FIT_CATEGORICAL
        fail(msg) == [raised |-> msg, X |-> <<>>]
        year(i) == NumericValue(df.rows[i]["Year"])
        code(i) == CategoryCode(df.rows[i]["Brand"])
    IN  IF pre.none THEN fail("'NoneType' object has no attribute 'transform'")
        ELSE IF ~(fit \subseteq Range(df.columns)) THEN fail("columns are missing")
        ELSE IF \E c \in fit : Occurrences(df.columns, c) > 1
             THEN fail("X has 2 features, but the transformer is expecting 1")
        ELSE IF df.rows = <<>> THEN fail("Found array with 0 sample(s)")
        ELSE IF \E i \in DOMAIN df.rows : ~year(i).ok
             THEN fail("could not convert string to float")
        ELSE IF pre.handle_unknown = "error" /\ \E i \in DOMAIN df.rows : code(i) = 0
             THEN fail("Found unknown categories")
        ELSE [raised |-> "",
              X |-> [i \in DOMAIN df.rows |->
                       [nan |-> year(i).nan /\ pre.handle_unknown = "error",
                        num |-> year(i).num, code |-> code(i)]]]

\* model.predict(X_t), lines 100 and 110: one number per row
model_predict(mdl, X) ==
    IF mdl.none
    THEN [raised |-> "'NoneType' object has no attribute 'predict'", preds |-> <<>>]
    ELSE IF \E i \in DOMAIN X : X[i].nan
         THEN [raised |-> "Input contains NaN", preds |-> <<>>]
    ELSE [raised |-> "",
          preds |-> [i \in DOMAIN X |->
                       100005 + 7 * (X[i].num \div 1000) + 1236 * X[i].code]]

\* round(prediction, 2), line 162: to the nearest hundredth, ties to even
Round2(p) ==
    LET down == (p \div 10) * 10
        rest == p % 10
    IN  IF rest < 5 THEN down
        ELSE IF rest > 5 THEN down + 10
        ELSE IF (down \div 10) % 2 = 0 THEN down ELSE down + 10

\* predict_single that fills the columns the row lacks with NaN
predict_single_reindex(pre, mdl, feats, input_data) ==
    LET cols == <<"Year", "Brand">>
        df == [columns |-> cols,
               rows |-> << [c \in Range(cols) |->
                              IF c \in DOMAIN input_data THEN input_data[c]
                              ELSE NaNCell] >>]
        t == transform(pre, df)
        p == model_predict(mdl, t.X)
    IN  IF t.raised # "" THEN [raised |-> t.raised, pred |-> 0, calls |-> 1]
        ELSE IF p.raised # "" THEN [raised |-> p.raised, pred |-> 0, calls |-> 2]
        ELSE [raised |-> "", pred |-> p.preds[1], calls |-> 2]

\* lines 96-101
predict_single(pre, mdl, feats, input_data) ==
    LET df == [columns |-> feats.items,
               rows |-> << [c \in Range(feats.items) |-> input_data[c]] >>]
        t == transform(pre, df)
        p == model_predict(mdl, t.X)
    IN  IF t.raised # "" THEN [raised |-> t.raised, pred |-> 0, calls |-> 1]
        ELSE IF p.raised # "" THEN [raised |-> p.raised, pred |-> 0, calls |-> 2]
        ELSE [raised |-> "", pred |-> p.preds[1], calls |-> 2]

\* predict_batch without line 105's copy: when no column is dropped, the new
\* column lands in the caller's frame
predict_batch_inplace(pre, mdl, df_input) ==
    LET dropped == TARGET \in Range(df_input.columns)
        df == IF dropped THEN DropColumn(df_input, TARGET) ELSE df_input
        t == transform(pre, df)
        p == model_predict(mdl, t.X)
        out == SetColumn(df, PREDICTED, [i \in DOMAIN p.preds |-> FloatCell(p.preds[i])])
    IN  IF t.raised # ""
        THEN [raised |-> t.raised, df_input |-> df_input, df |-> df, calls |-> 1]
        ELSE IF p.raised # ""
        THEN [raised |-> p.raised, df_input |-> df_input, df |-> df, calls |-> 2]
        ELSE [raised |-> "", df_input |-> IF dropped THEN df_input ELSE out,
              calls |-> 2, df |-> out]

\* lines 103-112. df_input is the caller's frame as the call leaves it.
predict_batch(pre, mdl, df_input) ==
    LET copy == df_input
        df == IF TARGET \in Range(copy.columns) THEN DropColumn(copy, TARGET) ELSE copy
        t == transform(pre, df)
        p == model_predict(mdl, t.X)
        fail(msg, n) == [raised |-> msg, df_input |-> df_input, df |-> df, calls |-> n]
    IN  IF t.raised # "" THEN fail(t.raised, 1)
        ELSE IF p.raised # "" THEN fail(p.raised, 2)
        ELSE [raised |-> "", df_input |-> df_input, calls |-> 2,
              df |-> SetColumn(df, PREDICTED,
                               [i \in DOMAIN p.preds |-> FloatCell(p.preds[i])])]

----------------------------------------------------------------------------
(* Requests and responses *)

NoFrame == [columns |-> <<>>, rows |-> <<>>]

\* what a form field can hold; NoneValue stands for a field the form omits
FormValues == {"12", "7.5", "nan", "abc", "Tata"}

Forms == [Names -> FormValues \cup {NoneValue}]

EmptyForm == [n \in Names |-> NoneValue]

\* the data rows an uploaded CSV is made of: one of a brand the training sample
\* holds, one of a brand it does not
UploadRows ==
    { [c \in {"Year", "Brand", TARGET} |->
         CASE c = "Year" -> "2015" [] c = "Brand" -> "Tata" [] OTHER -> "12"],
      [c \in {"Year", "Brand", TARGET} |->
         CASE c = "Year" -> "2018" [] c = "Brand" -> "abc" [] OTHER -> "7.5"] }

\* the headers an uploaded CSV has
UploadColumns == {<<"Year", "Brand">>, <<"Year", "Brand", TARGET>>, <<"Year">>}

UploadCsvs ==
    {[columns |-> cols,
      rows |-> [i \in DOMAIN rs |-> [c \in Range(cols) |-> rs[i][c]]]] :
        cols \in UploadColumns, rs \in SeqsUpTo(UploadRows, MaxRows)}

\* request.files: no 'file' part, a part with an empty filename, a file that is
\* no CSV (malformed), or a CSV
NoUpload == [has_file |-> FALSE, filename |-> "", malformed |-> FALSE, csv |-> NoFrame]

Uploads ==
    {NoUpload,
     [NoUpload EXCEPT !.has_file = TRUE],
     [NoUpload EXCEPT !.has_file = TRUE, !.filename = "cars.csv", !.malformed = TRUE]}
    \cup {[has_file |-> TRUE, filename |-> n, malformed |-> FALSE, csv |-> c] :
            n \in {"cars.csv"}, c \in UploadCsvs}
    \cup {[has_file |-> TRUE, filename |-> "", malformed |-> FALSE, csv |-> c] :
            c \in {u \in UploadCsvs : Len(u.rows) = 1 /\ Len(u.columns) = 2}}

Request(endpoint, form, upload) == [endpoint |-> endpoint, form |-> form, file |-> upload]

NoRequest == Request("", EmptyForm, NoUpload)

NoHealth == [status |-> "", model_loaded |-> FALSE, preprocessor_loaded |-> FALSE,
             features_count |-> 0]

NoResponse ==
    [status |-> 0, mimetype |-> "", success |-> FALSE, error |-> "", prediction |-> 0,
     input_data |-> <<>>, body |-> NoFrame, health |-> NoHealth,
     numeric_defaults |-> <<>>]

\* jsonify({'success': False, 'error': str(e)}), 400: lines 167-170, 177, 181, 202-205
ErrorResponse(msg) ==
    [NoResponse EXCEPT !.status = 400, !.mimetype = "application/json", !.error = msg]

NoTrace == [read_upload |-> FALSE, pipeline_calls |-> 0, df_input |-> NoFrame]

----------------------------------------------------------------------------
(* GET /, lines 83-94 and 122-131 *)

\* the values of a sequence of numbers in ascending order
SortedNums(s) ==
    CHOOSE t \in [DOMAIN s -> Range(s)] :
        /\ \A x \in Range(s) : Occurrences(t, x) = Occurrences(s, x)
        /\ \A i, j \in DOMAIN t : i < j => t[i] <= t[j]

\* df[col].median(), line 91, of a numeric column: NaN cells are skipped
Median(df, col) ==
    LET present == Filter([i \in DOMAIN df.rows |-> df.rows[i][col]],
                          {x \in ColumnCells(df, col) : x.kind # "nan"})
        t == SortedNums([i \in DOMAIN present |-> present[i].num])
        n == Len(t)
    IN  IF n = 0 THEN 0
        ELSE IF n % 2 = 1 THEN t[(n + 1) \div 2]
        ELSE (t[n \div 2] + t[n \div 2 + 1]) \div 2

\* lines 83-94: the defaults, or the exception median() raises on a column of texts
get_numeric_defaults(files, nums) ==
    IF ~files.train_csv THEN [raised |-> "", defaults |-> <<>>]
    ELSE LET df == TrainDf
             cols == Range(nums) \cap Range(df.columns)
         IN  IF \E c \in cols : ~is_numeric_dtype(Dtype(df, c))
             THEN [raised |-> "could not convert string to float", defaults |-> <<>>]
             ELSE [raised |-> "",
                   defaults |-> [c \in cols |->
                                   [median |-> Median(df, c),
                                    is_int |-> is_integer_dtype(Dtype(df, c))]]]

\* home that loads the dropdown values again on every request
home_reload ==
    /\ pc = "serving"
    /\ response' = [NoResponse EXCEPT !.status = 200, !.mimetype = "text/html"]
    /\ request' = Request("/", EmptyForm, NoUpload)
    /\ trace' = NoTrace
    /\ training_uniques' = load_training_unique_values(fs, training_uniques)
    /\ UNCHANGED <<fs, pc, preprocessor, model, features, num_cols, cat_cols, log>>

\* lines 122-131. templates/index.html is rendered from the globals and the
\* defaults; an exception leaves the handler and the server answers 500.
home ==
    /\ pc = "serving"
    /\ LET d == get_numeric_defaults(fs, num_cols)
       IN  response' =
             IF d.raised # ""
             THEN [NoResponse EXCEPT !.status = 500, !.mimetype = "text/html",
                                     !.error = d.raised]
             ELSE [NoResponse EXCEPT !.status = 200, !.mimetype = "text/html",
                                     !.numeric_defaults = d.defaults]
    /\ request' = Request("/", EmptyForm, NoUpload)
    /\ trace' = NoTrace
    /\ UNCHANGED <<fs, pc, artifacts, log>>

----------------------------------------------------------------------------
(* POST /predict, lines 133-170 *)

\* lines 143-155: the value of one feature, coerced
coerce(files, nums, feature, value) ==
    IF feature \in Range(nums)
    THEN IF files.train_csv
         THEN IF feature \notin Range(TrainCsv.columns)
              THEN [raised |-> "Usecols do not match columns", cell |-> NaNCell]
              ELSE IF is_integer_dtype(Dtype(TrainDf, feature))
                   THEN PyInt(PyFloat(value))
                   ELSE PyFloat(value)
         ELSE PyFloat(value)
    ELSE [raised |-> "", cell |-> StrCell(PyStr(value))]

\* lines 137-155: the loop over the features, left at the first exception
RECURSIVE extract(_, _, _, _, _)
extract(files, nums, todo, form, input_data) ==
    IF todo = <<>> THEN [raised |-> "", input_data |-> input_data]
    ELSE LET feature == Head(todo)
             r == coerce(files, nums, feature, form[feature])
         IN  IF r.raised # "" THEN [raised |-> r.raised, input_data |-> input_data]
             ELSE extract(files, nums, Tail(todo), form,
                          [f \in (DOMAIN input_data) \cup {feature} |->
                             IF f = feature THEN r.cell ELSE input_data[f]])

\* lines 136-170: the response and what the handler did
predict_view(files, pre, mdl, feats, nums, form) ==
    IF feats.none
    THEN [response |-> ErrorResponse("'NoneType' object is not iterable"),
          trace |-> NoTrace]
    ELSE LET e == extract(files, nums, feats.items, form, <<>>)
             p == predict_single(pre, mdl, feats, e.input_data)
         IN  IF e.raised # ""
             THEN [response |-> ErrorResponse(e.raised), trace |-> NoTrace]
             ELSE IF p.raised # ""
             THEN [response |-> ErrorResponse(p.raised),
                   trace |-> [NoTrace EXCEPT !.pipeline_calls = p.calls]]
             ELSE [response |->
                     [NoResponse EXCEPT !.status = 200, !.mimetype = "application/json",
                                        !.success = TRUE,
                                        !.prediction = Round2(p.pred),
                                        !.input_data = e.input_data],
                   trace |-> [NoTrace EXCEPT !.pipeline_calls = p.calls]]

predict ==
    /\ pc = "serving"
    /\ \E form \in Forms :
         \E r \in {predict_view(fs, preprocessor, model, features, num_cols, form)} :
             /\ request' = Request("/predict", form, NoUpload)
             /\ response' = r.response
             /\ trace' = r.trace
    /\ UNCHANGED <<fs, pc, artifacts, log>>

----------------------------------------------------------------------------
(* POST /batch_predict, lines 172-205 *)

\* batch_predict without the empty-filename check of lines 180-181
batch_predict_view_unchecked(pre, mdl, upload) ==
    IF ~upload.has_file
    THEN [response |-> ErrorResponse("No file uploaded"), trace |-> NoTrace]
    ELSE LET b == predict_batch(pre, mdl, read_csv(upload.csv))
             t == [read_upload |-> TRUE, pipeline_calls |-> b.calls,
                   df_input |-> b.df_input]
         IN  IF b.raised # ""
             THEN [response |-> ErrorResponse(b.raised), trace |-> t]
             ELSE [response |->
                     [NoResponse EXCEPT !.status = 200, !.mimetype = "text/csv",
                                        !.body = b.df],
                   trace |-> t]

\* lines 175-205
batch_predict_view(pre, mdl, upload) ==
    IF ~upload.has_file
    THEN [response |-> ErrorResponse("No file uploaded"), trace |-> NoTrace]
    ELSE IF upload.filename = ""
    THEN [response |-> ErrorResponse("No file selected"), trace |-> NoTrace]
    ELSE IF upload.malformed
    THEN [response |-> ErrorResponse("No columns to parse from file"),
          trace |-> [NoTrace EXCEPT !.read_upload = TRUE]]
    ELSE LET df_input == read_csv(upload.csv)
             b == predict_batch(pre, mdl, df_input)
             t == [read_upload |-> TRUE, pipeline_calls |-> b.calls,
                   df_input |-> b.df_input]
         IN  IF b.raised # ""
             THEN [response |-> ErrorResponse(b.raised), trace |-> t]
             ELSE [response |->
                     [NoResponse EXCEPT !.status = 200, !.mimetype = "text/csv",
                                        !.body = b.df],
                   trace |-> t]

batch_predict ==
    /\ pc = "serving"
    /\ \E upload \in Uploads :
         \E r \in {batch_predict_view(preprocessor, model, upload)} :
             /\ request' = Request("/batch_predict", EmptyForm, upload)
             /\ response' = r.response
             /\ trace' = r.trace
    /\ UNCHANGED <<fs, pc, artifacts, log>>

----------------------------------------------------------------------------
(* GET /health, lines 207-215 *)

\* health that reports the model as loaded whatever the global holds
health_view_constant(pre, mdl, feats) ==
    [NoResponse EXCEPT
       !.status = 200, !.mimetype = "application/json",
       !.health = [status |-> "healthy", model_loaded |-> TRUE,
                   preprocessor_loaded |-> ~pre.none,
                   features_count |-> IF ~feats.none THEN Len(feats.items) ELSE 0]]

\* health that takes len(features) without the guard of line 214: len(None)
\* raises and the server answers 500
health_view_unguarded(pre, mdl, feats) ==
    IF feats.none
    THEN [NoResponse EXCEPT !.status = 500, !.mimetype = "text/html",
                            !.error = "object of type 'NoneType' has no len()"]
    ELSE [NoResponse EXCEPT
            !.status = 200, !.mimetype = "application/json",
            !.health = [status |-> "healthy", model_loaded |-> ~mdl.none,
                        preprocessor_loaded |-> ~pre.none,
                        features_count |-> Len(feats.items)]]

\* lines 207-215
health_view(pre, mdl, feats) ==
    [NoResponse EXCEPT
       !.status = 200, !.mimetype = "application/json",
       !.health = [status |-> "healthy",
                   model_loaded |-> ~mdl.none,
                   preprocessor_loaded |-> ~pre.none,
                   features_count |-> IF ~feats.none /\ feats.items # <<>>
                                      THEN Len(feats.items) ELSE 0]]

health ==
    /\ pc = "serving"
    /\ request' = Request("/health", EmptyForm, NoUpload)
    /\ response' = health_view(preprocessor, model, features)
    /\ trace' = NoTrace
    /\ UNCHANGED <<fs, pc, artifacts, log>>

----------------------------------------------------------------------------
(* The process *)

Init ==
    /\ fs \in FileSystems
    /\ pc = "startup"
    /\ preprocessor = NoneObject
    /\ model = NoneObject
    /\ features = NoneList
    /\ num_cols = <<>>
    /\ cat_cols = <<>>
    /\ training_uniques = <<>>
    /\ log = ""
    /\ request = NoRequest
    /\ response = NoResponse
    /\ trace = NoTrace

\* lines 114-120: the module body's try/except
Startup ==
    /\ pc = "startup"
    /\ LET r == load_artifacts(fs)
       IN  /\ preprocessor' = r.preprocessor
           /\ model' = r.model
           /\ features' = r.features
           /\ num_cols' = r.num_cols
           /\ cat_cols' = r.cat_cols
           /\ IF r.raised = ""
              THEN /\ training_uniques' = load_training_unique_values(fs, training_uniques)
                   /\ log' = "Model and artifacts loaded successfully"
              ELSE /\ training_uniques' = training_uniques
                   /\ log' = "Error loading artifacts"
    /\ pc' = "serving"
    /\ UNCHANGED <<fs, request, response, trace>>

Next ==
    \/ Startup
    \/ home
    \/ predict
    \/ batch_predict
    \/ health

Spec == Init /\ [][Next]_vars

----------------------------------------------------------------------------
(* Properties *)

StartupFailed ==
    pc = "serving" /\ (fs.preprocessor_file = "absent" \/ ~fs.model_file)

StartupSucceeded ==
    pc = "serving" /\ fs.preprocessor_file # "absent" /\ fs.model_file

Handled(endpoint) == pc = "serving" /\ request.endpoint = endpoint

\* the features the files on disk declare
DeclaredCount ==
    IF fs.feature_list.exists
    THEN Len(fs.feature_list.num_cols) + Len(fs.feature_list.cat_cols)
    ELSE IF fs.train_csv THEN Cardinality(Range(TrainCsv.columns) \ {TARGET})
    ELSE 0

IsErrorResponse ==
    /\ response.status = 400
    /\ ~response.success
    /\ response.error # ""
    /\ response.body = NoFrame
    /\ response.input_data = <<>>
    /\ response.prediction = 0

\* the form of the request omits a declared feature
OmitsFeature ==
    /\ Handled("/predict")
    /\ ~features.none
    /\ \E f \in Range(features.items) : request.form[f] = NoneValue

\* C1: a POST /predict whose form omits a declared feature, numeric or
\* categorical, is answered 400 with success=false, never 200.
C1_MissingFeatureRejected == OmitsFeature => IsErrorResponse

\* C2, as claimed: after a startup that failed on a missing preprocessor or model
\* file, the status of every GET /health response is not "healthy".
C2_HealthStatusUnhealthy ==
    (StartupFailed /\ Handled("/health")) => response.health.status # "healthy"

\* C2, amended: after such a startup every GET /health response is a 200 that
\* reports model_loaded and preprocessor_loaded false, and its status field is
\* still the text "healthy".
C2_HealthReportsNotLoaded ==
    (StartupFailed /\ Handled("/health")) =>
        /\ response.status = 200
        /\ ~response.health.model_loaded
        /\ ~response.health.preprocessor_loaded
        /\ response.health.status = "healthy"

C2_Witness ==
    /\ StartupFailed
    /\ ~fs.model_file
    /\ fs.preprocessor_file # "absent"
    /\ Handled("/health")
    /\ response.status = 200
    /\ ~response.health.model_loaded

\* C3: GET /health always answers 200; after a successful startup both loaded
\* flags are true and features_count is the number of declared features; after a
\* startup that found no preprocessor or model file both are false and
\* features_count is 0.
C3_HealthReflectsState ==
    Handled("/health") =>
        /\ response.status = 200
        /\ StartupSucceeded =>
             /\ response.health.model_loaded
             /\ response.health.preprocessor_loaded
             /\ response.health.features_count = DeclaredCount
        /\ StartupFailed =>
             /\ ~response.health.model_loaded
             /\ ~response.health.preprocessor_loaded
             /\ response.health.features_count = 0

C3_Witness ==
    /\ Handled("/health")
    /\ StartupSucceeded
    /\ response.health.model_loaded
    /\ response.health.preprocessor_loaded
    /\ response.health.features_count = 2

NoSchemaFiles == StartupSucceeded /\ ~fs.feature_list.exists /\ ~fs.train_csv

\* the request uploads a CSV that holds the columns the preprocessor was fit on
\* and at least one row, with no value the preprocessor raises on
AcceptedUpload ==
    /\ Handled("/batch_predict")
    /\ request.file.has_file
    /\ request.file.filename # ""
    /\ ~request.file.malformed
    /\ FIT_NUMERIC \cup FIT_CATEGORICAL \subseteq Range(request.file.csv.columns)
    /\ request.file.csv.rows # <<>>
    /\ \/ fs.preprocessor_file = "ignore"
       \/ \A i \in DOMAIN request.file.csv.rows :
            request.file.csv.rows[i]["Brand"] \in ColumnTexts(TrainCsv, "Brand")

\* C4, as claimed: after a startup with the artifacts present and neither
\* feature_list.json nor train.csv, the feature list is empty and every
\* POST /predict and POST /batch_predict is answered 400.
C4_NoSchemaRejectsAll ==
    NoSchemaFiles =>
        /\ features = ListOf(<<>>)
        /\ (Handled("/predict") \/ Handled("/batch_predict")) => response.status = 400

\* C4, amended: after such a startup the feature list is empty and every
\* POST /predict is answered 400, its zero-column row being rejected by the
\* preprocessor; a POST /batch_predict is still answered 200 when the pipeline
\* accepts the upload.
C4_NoSchemaRejectsSingle ==
    NoSchemaFiles =>
        /\ features = ListOf(<<>>)
        /\ num_cols = <<>>
        /\ cat_cols = <<>>
        /\ Handled("/predict") =>
             /\ IsErrorResponse
             /\ response.error = "columns are missing"
        /\ AcceptedUpload => response.status = 200

C4_Witness ==
    /\ NoSchemaFiles
    /\ Handled("/predict")
    /\ \A n \in Names : request.form[n] # NoneValue
    /\ response.status = 400
    /\ trace.pipeline_calls = 1

Partitioned ==
    /\ NoDuplicates(features.items)
    /\ NoDuplicates(num_cols)
    /\ NoDuplicates(cat_cols)
    /\ Range(num_cols) \cap Range(cat_cols) = {}
    /\ Range(num_cols) \cup Range(cat_cols) = Range(features.items)

\* C5, as claimed: after load_artifacts succeeds, from a descriptor holding any
\* lists or from the training sample, every feature is in exactly one of num_cols
\* and cat_cols, no name is repeated, and their union is the feature list.
C5_SchemaPartitioned == StartupSucceeded => Partitioned

\* C5, amended: the union of num_cols and cat_cols is the feature list after
\* every successful load; every feature is in exactly one of them, unrepeated,
\* when the schema is inferred from the training sample or the descriptor's two
\* lists hold no name twice between them.
C5_SchemaPartitionedIfDescriptorIs ==
    StartupSucceeded =>
        /\ Range(num_cols) \cup Range(cat_cols) = Range(features.items)
        /\ Len(features.items) = DeclaredCount
        /\ (fs.feature_list.exists =>
              NoDuplicates(fs.feature_list.num_cols \o fs.feature_list.cat_cols))
           => Partitioned

C5_Witness ==
    /\ StartupSucceeded
    /\ ~fs.feature_list.exists
    /\ fs.train_csv
    /\ num_cols = <<"Year">>
    /\ cat_cols = <<"Brand">>
    /\ features = ListOf(<<"Year", "Brand">>)

\* C6: once startup has finished, no step of any handler changes model,
\* preprocessor, features, num_cols, cat_cols or training_uniques.
C6_ArtifactsUnchanged == [][pc = "serving" => UNCHANGED artifacts]_vars

C6_Witness ==
    /\ Handled("/predict")
    /\ response.status = 200
    /\ StartupSucceeded
    /\ features = ListOf(<<"Year", "Brand">>)
    /\ "Brand" \in DOMAIN training_uniques
    /\ training_uniques["Brand"] = <<"Tata", "Maruti">>

\* the upload of the request is a CSV whose columns, the target aside, are the
\* feature list, and the feature list names the columns the preprocessor was fit
\* on
MatchingUpload ==
    /\ Handled("/batch_predict")
    /\ StartupSucceeded
    /\ request.file.has_file
    /\ request.file.filename # ""
    /\ ~request.file.malformed
    /\ Filter(request.file.csv.columns, Names) = features.items
    /\ Range(features.items) = FIT_NUMERIC \cup FIT_CATEGORICAL

\* the prediction of the pipeline for row i of a frame, taken alone
SinglePrediction(df, i) ==
    model_predict(model,
        transform(preprocessor, [columns |-> df.columns, rows |-> <<df.rows[i]>>]).X).preds[1]

\* C7, as claimed: every upload whose columns match the feature schema, with or
\* without Price_INR, is answered with a table of the same rows in the same
\* order, Price_INR removed, the feature columns unchanged and one column
\* Predicted_Price_INR added; the input table is not modified. (Stated for the
\* uploads that hold at least one row.)
C7_BatchReturnsTable ==
    (MatchingUpload /\ request.file.csv.rows # <<>>) =>
        /\ response.status = 200
        /\ Len(response.body.rows) = Len(request.file.csv.rows)
        /\ response.body.columns = Append(features.items, PREDICTED)
        /\ trace.df_input = read_csv(request.file.csv)

\* C7, amended: such an upload is answered 200 exactly when it has a row and
\* the preprocessor accepts its values; the table then has the rows of the input
\* in their order, without Price_INR, each feature cell unchanged, and one more
\* column, Predicted_Price_INR, with the prediction of each row. Otherwise the
\* answer is a 400 with no table. The input table is not modified in either
\* case.
C7_BatchTableWhenAccepted ==
    MatchingUpload =>
        LET df_input == read_csv(request.file.csv)
        IN  /\ trace.df_input = df_input
            /\ AcceptedUpload <=> response.status = 200
            /\ response.status # 200 => IsErrorResponse
            /\ response.status = 200 =>
                 /\ response.mimetype = "text/csv"
                 /\ response.body.columns = Append(features.items, PREDICTED)
                 /\ Len(response.body.rows) = Len(df_input.rows)
                 /\ \A i \in DOMAIN df_input.rows :
                      /\ DOMAIN response.body.rows[i] = Range(response.body.columns)
                      /\ \A c \in Range(features.items) :
                           response.body.rows[i][c] = df_input.rows[i][c]
                      /\ response.body.rows[i][PREDICTED] =
                           FloatCell(SinglePrediction(df_input, i))

C7_Witness ==
    /\ MatchingUpload
    /\ TARGET \in Range(request.file.csv.columns)
    /\ response.status = 200
    /\ Len(response.body.rows) = 2
    /\ response.body.rows[1] # response.body.rows[2]
    /\ TARGET \notin Range(response.body.columns)

\* texts float() raises ValueError on ("nan" is not one: float("nan") is a float)
NonNumericTexts == {"abc", "Tata"}

\* the messages of the exceptions the coercion loop of lines 140-155 raises
CoercionErrors ==
    {"could not convert string to float",
     "float() argument must be a string or a real number, not 'NoneType'",
     "cannot convert float NaN to integer",
     "Usecols do not match columns"}

NonNumericSubmitted ==
    /\ Handled("/predict")
    /\ ~features.none
    /\ \E f \in Range(features.items) \cap Range(num_cols) :
         request.form[f] \in NonNumericTexts

\* C8: a POST /predict with a non-numeric text for a feature declared numeric,
\* whatever the training column's dtype and whether or not train.csv exists, is
\* answered 400 with success=false and the message of a coercion failure; the
\* preprocessor and the model are not invoked and no prediction is returned.
C8_NonNumericRejected ==
    NonNumericSubmitted =>
        /\ IsErrorResponse
        /\ response.error \in CoercionErrors
        /\ trace.pipeline_calls = 0

C8_Witness ==
    /\ NonNumericSubmitted
    /\ request.form["Year"] = "abc"
    /\ request.form["Brand"] = "Tata"
    /\ features = ListOf(<<"Year", "Brand">>)
    /\ num_cols = <<"Year">>
    /\ fs.train_csv
    /\ fs.preprocessor_file = "ignore"
    /\ response.status = 400
    /\ response.error = "could not convert string to float"

NoFileSelected ==
    /\ Handled("/batch_predict")
    /\ (~request.file.has_file \/ request.file.filename = "")

\* C9: a POST /batch_predict with no 'file' part, or with one whose filename is
\* empty, is answered 400 with success=false before the upload is read as CSV
\* and before the preprocessor or the model is invoked.
C9_NoFileRejected ==
    NoFileSelected =>
        /\ IsErrorResponse
        /\ response.error = (IF request.file.has_file THEN "No file selected"
                             ELSE "No file uploaded")
        /\ ~trace.read_upload
        /\ trace.pipeline_calls = 0

C9_Witness ==
    /\ NoFileSelected
    /\ StartupSucceeded
    /\ request.file.has_file
    /\ request.file.csv.rows # <<>>
    /\ response.status = 400

\* C10: after a startup that failed on a missing preprocessor or model file the
\* process serves with the artifact globals unset, and every POST /predict and
\* POST /batch_predict from then on is answered 400 with success=false.
C10_FailedStartupRejectsPredictions ==
    StartupFailed =>
        /\ preprocessor = NoneObject
        /\ model = NoneObject
        /\ features = NoneList
        /\ num_cols = <<>>
        /\ cat_cols = <<>>
        /\ training_uniques = <<>>
        /\ log = "Error loading artifacts"
        /\ (Handled("/predict") \/ Handled("/batch_predict")) => IsErrorResponse

C10_Witness ==
    /\ StartupFailed
    /\ fs.preprocessor_file # "absent"
    /\ Handled("/batch_predict")
    /\ request.file.csv.rows # <<>>
    /\ request.file.filename # ""
    /\ response.status = 400
    /\ trace.pipeline_calls = 1

=============================================================================
